---- MODULE Spec2Model ----
(***************************************************************************)
(* HbA1c Test Validation API (src/hba1c_api.py).                           *)
(*                                                                         *)
(* The module trains the clinical decision support models while it is      *)
(* imported (lines 19-26) and only then starts the web server (line 294).  *)
(* Each request handler is one action.  What a handler answers is computed *)
(* by an operator named after the handler; the operator yields the set of  *)
(* possible (response, core calls) pairs, one per outcome of the core.     *)
(*                                                                         *)
(* The core (hba1c_validation_model: ClinicalDecisionSupport and its three *)
(* sub-models) is imported by the API but is not part of the source under  *)
(* study; its outcomes are modelled from the specification.                *)
(*                                                                         *)
(* Strings built by formatting are sequences of tokens, so that an error   *)
(* message can be inspected for the field names it carries.                *)
(***************************************************************************)
EXTENDS Naturals, Sequences, FiniteSets, TLC

\* Longest patients list of a batch request.
MaxBatch == 2

\* Most connections that wait on the bound socket while training runs.
MaxPending == 1

VARIABLES
    phase,         \* "training" (module import), "serving" (app.run), "crashed"
    socket_bound,  \* is the listening socket already bound while training runs
    cds,           \* the three sub-models' is_trained flags
    pending,       \* requests queued on the bound socket before serving starts
    last           \* the latest finished exchange (at most one is kept)

vars == <<phase, socket_bound, cds, pending, last>>

----------------------------------------------------------------------------
(* JSON values of request bodies *)

required_fields == <<"patient_id", "hba1c", "fasting_glucose", "haemoglobin">>

OptionalFields == {"age"}

Range(s) == {s[i] : i \in DOMAIN s}

RequiredSet == Range(required_fields)

Fields == RequiredSet \cup OptionalFields

PatientIds == {"P1", "P2"}

\* The values a field takes in a request (JSON literals, as written).
FieldValues(k) ==
    CASE k = "patient_id" -> PatientIds
      [] k = "hba1c" -> {"7.2", "-1"}
      [] k = "fasting_glucose" -> {"120"}
      [] k = "haemoglobin" -> {"9.5"}
      [] OTHER -> {"35"}

AllValues == UNION {FieldValues(k) : k \in Fields}

EmptyMap == [k \in {} |-> "0"]

\* Mappings from some of the fields to values: the patient records.
Mappings ==
    UNION {{f \in [S -> AllValues] : \A k \in S : f[k] \in FieldValues(k)} :
           S \in SUBSET Fields}

Null == [kind |-> "null", val |-> EmptyMap]

Obj(f) == [kind |-> "object", val |-> f]

\* The JSON values that are no mapping and not null, as request.get_json()
\* parses them.  A number is an int or, when written with a fraction or an
\* exponent, a float; its value is kept in tenths.
Num(float, tenths) ==
    [kind |-> "number", val |-> EmptyMap, float |-> float, tenths |-> tenths]

Int(n) == Num(FALSE, 10 * n)

Float(tenths) == Num(TRUE, tenths)

Bool(b) == [kind |-> "boolean", val |-> EmptyMap, b |-> b]

\* A string is the sequence of its characters.
Str(chars) == [kind |-> "string", val |-> EmptyMap, chars |-> chars]

\* A list is the sequence of its items.
Arr(items) == [kind |-> "array", val |-> EmptyMap, items |-> items]

\* The characters of a field name.
Chars(field) ==
    CASE field = "patient_id" -> <<"p", "a", "t", "i", "e", "n", "t", "_", "i", "d">>
      [] field = "hba1c" -> <<"h", "b", "a", "1", "c">>
      [] field = "fasting_glucose" ->
             <<"f", "a", "s", "t", "i", "n", "g", "_", "g", "l", "u", "c", "o", "s", "e">>
      [] field = "haemoglobin" ->
             <<"h", "a", "e", "m", "o", "g", "l", "o", "b", "i", "n">>
      [] OTHER -> <<"a", "g", "e">>

\* Of each kind a value Python holds false and values it holds true: 0, 0.0, 5,
\* 7.2, false, true, "", "0", "abc", "hba1c", [], [1], ["patient_id"].
NonMappings ==
    {Int(0), Float(0), Int(5), Float(72),
     Bool(FALSE), Bool(TRUE),
     Str(<<>>), Str(<<"0">>), Str(<<"a", "b", "c">>), Str(Chars("hba1c")),
     Arr(<<>>), Arr(<<Int(1)>>), Arr(<<Str(Chars("patient_id"))>>)}

RecordBodies == {Null} \cup NonMappings \cup {Obj(f) : f \in Mappings}

\* The elements of a patients list: the numbers 0 and 5 and four records, which
\* differ in patient_id (absent, P1, P2) and in hba1c (valid, out of range, absent).
BatchElements ==
    {Int(0), Int(5),
     Obj([hba1c |-> "7.2", fasting_glucose |-> "120", haemoglobin |-> "9.5"]),
     Obj([patient_id |-> "P1", hba1c |-> "7.2", fasting_glucose |-> "120",
          haemoglobin |-> "9.5"]),
     Obj([patient_id |-> "P2", hba1c |-> "-1", fasting_glucose |-> "120",
          haemoglobin |-> "9.5"]),
     Obj([patient_id |-> "P1", fasting_glucose |-> "120", haemoglobin |-> "9.5"])}

PatientLists == UNION {[1..n -> BatchElements] : n \in 0..MaxBatch}

\* A batch body: null, a number, an object without "patients", or one with
\* the list.
BatchBodies ==
    {Null, Int(0), Int(5), Float(72)}
    \cup {[kind |-> "object", has_patients |-> FALSE, patients |-> <<>>]}
    \cup {[kind |-> "object", has_patients |-> TRUE, patients |-> p] :
          p \in PatientLists}

\* Python truthiness of a body: None, the empty dict, a zero, False, the empty
\* string and the empty list are falsy.
Falsy(v) ==
    CASE v.kind = "null" -> TRUE
      [] v.kind = "object" -> DOMAIN v.val = {}
      [] v.kind = "number" -> v.tenths = 0
      [] v.kind = "boolean" -> ~v.b
      [] v.kind = "string" -> v.chars = <<>>
      [] OTHER -> v.items = <<>>

\* Does `field in v` work on v: a dict, a str or a list; not a number or a bool.
Container(v) == v.kind \in {"object", "string", "array"}

\* sub in s, for strings: s holds sub as a run of consecutive characters.
Contains(s, sub) ==
    \E i \in 1..Len(s) :
        /\ i + Len(sub) - 1 <= Len(s)
        /\ SubSeq(s, i, i + Len(sub) - 1) = sub

\* field in v: a key of the dict, a substring of the str, an item of the list.
In(field, v) ==
    CASE v.kind = "object" -> field \in DOMAIN v.val
      [] v.kind = "string" -> Contains(v.chars, Chars(field))
      [] v.kind = "array" ->
             \E i \in DOMAIN v.items :
                 v.items[i].kind = "string" /\ v.items[i].chars = Chars(field)
      [] OTHER -> FALSE

\* dict.get(key, default) on a mapping.
Get(v, key, default) == IF key \in DOMAIN v.val THEN v.val[key] ELSE default

----------------------------------------------------------------------------
(* The core: hba1c_validation_model, modelled from the specification *)

NumericRequired == {"hba1c", "fasting_glucose", "haemoglobin"}

NoValue == [none |-> TRUE]

Raise(cls, msg) == [raised |-> TRUE, cls |-> cls, msg |-> msg, value |-> NoValue]

Return(v) == [raised |-> FALSE, cls |-> "", msg |-> <<>>, value |-> v]

\* The required numeric fields a record lacks, in the order of required_fields.
MissingNumeric(record) ==
    SelectSeq(required_fields,
              LAMBDA f : f \in NumericRequired /\ f \notin DOMAIN record.val)

\* A physically impossible value: hba1c <= 0.
OutOfRange(record) == "hba1c" \in DOMAIN record.val /\ record.val["hba1c"] = "-1"

\* FeatureVectorizer.vectorize: the InvalidRecordError it raises, if any.
VectorizeErrors(record) ==
    IF record.kind # "object"
    THEN {Raise("TypeError", <<"record is not a mapping">>)}
    ELSE IF MissingNumeric(record) # <<>>
    THEN {Raise("InvalidRecordError", <<"missing required field: ">> \o MissingNumeric(record))}
    ELSE IF OutOfRange(record)
    THEN {Raise("InvalidRecordError", <<"out of range: ", "hba1c">>)}
    ELSE {}

NotTrained == Raise("ModelNotTrainedError", <<"model not trained">>)

\* A sub-model's outcomes: not trained, a vectorizer error, or one of `values`.
SubModel(trained, record, values) ==
    IF ~trained THEN {NotTrained}
    ELSE IF VectorizeErrors(record) # {} THEN VectorizeErrors(record)
    ELSE {Return(v) : v \in values}

categories == {"none", "iron_deficiency", "thalassemia", "sickle_cell", "g6pd"}

anomaly_detector_detect_anomaly(record) ==
    SubModel(cds.anomaly_detector, record, {[is_anomalous |-> b] : b \in BOOLEAN})

disorder_classifier_predict_disorder(record) ==
    SubModel(cds.disorder_classifier, record,
             {[predicted_category |-> c] : c \in categories})

hba1c_corrector_predict_corrected_hba1c(record) ==
    SubModel(cds.hba1c_corrector, record,
             {[reported_hba1c |-> Get(record, "hba1c", "")]})

\* ClinicalDecisionSupport.assess_test_result.  A record without patient_id may
\* be assessed or rejected: the specification leaves it open.
assess_test_result(record) ==
    SubModel(cds.anomaly_detector /\ cds.disorder_classifier /\ cds.hba1c_corrector,
             record,
             {[test_validity |-> [is_reliable |-> b]] : b \in BOOLEAN})
    \cup (IF /\ cds.anomaly_detector /\ cds.disorder_classifier /\ cds.hba1c_corrector
              /\ record.kind = "object"
              /\ VectorizeErrors(record) = {}
              /\ "patient_id" \notin DOMAIN record.val
           THEN {Raise("InvalidRecordError", <<"missing required field: ", "patient_id">>)}
           ELSE {})

\* ClinicalDecisionSupport.initialize_models fits all three sub-models.
initialize_models ==
    [anomaly_detector |-> TRUE, disorder_classifier |-> TRUE, hba1c_corrector |-> TRUE]

Untrained ==
    [anomaly_detector |-> FALSE, disorder_classifier |-> FALSE, hba1c_corrector |-> FALSE]

----------------------------------------------------------------------------
(* Responses *)

\* jsonify(json), code: a JSON response with its HTTP status.
Resp(code, json) == [code |-> code, json |-> json]

\* What a handler run yields: its response and the core calls it made.
Result(resp, calls) == [resp |-> resp, calls |-> calls]

Call(fn, arg, outcome) == [fn |-> fn, arg |-> arg, outcome |-> outcome]

\* ", ".join(names): the names with the separator between them.
RECURSIVE Join(_, _)
Join(names, sep) ==
    IF Len(names) = 0 THEN <<>>
    ELSE IF Len(names) = 1 THEN <<names[1]>>
    ELSE <<names[1], sep>> \o Join(Tail(names), sep)

\* The except clause of every handler: a 500 carrying str(e) and nothing else.
ErrorResponse(msg) == Resp(500, [success |-> FALSE, error |-> msg])

NoPatientData == Resp(400, [success |-> FALSE, error |-> <<"No patient data provided">>])

\* type(v).__name__ of a body that is no mapping.
TypeName(v) ==
    CASE v.kind = "null" -> "NoneType"
      [] v.kind = "number" -> (IF v.float THEN "float" ELSE "int")
      [] v.kind = "boolean" -> "bool"
      [] v.kind = "string" -> "str"
      [] v.kind = "array" -> "list"
      [] OTHER -> "dict"

\* What reading an attribute of a non-mapping raises: str() of that error.
AttributeErrorMsg(v) == <<"'", TypeName(v), "' object has no attribute 'get'">>

\* What `field not in v` raises on a number or a bool.
TypeErrorMsg(v) == <<"argument of type '", TypeName(v), "' is not iterable">>

----------------------------------------------------------------------------
(* The handlers *)

health_check ==
    Result(Resp(200, [status |-> "healthy", timestamp |-> "now",
                      service |-> "HbA1c Validation API", models_loaded |-> TRUE]),
           <<>>)

\* [field for field in required_fields if field not in patient_data]
missing_fields(patient_data) ==
    SelectSeq(required_fields, LAMBDA field : ~In(field, patient_data))

validate_hba1c(patient_data) ==
    IF Falsy(patient_data) THEN {Result(NoPatientData, <<>>)}
    ELSE IF ~Container(patient_data)
    THEN {Result(ErrorResponse(TypeErrorMsg(patient_data)), <<>>)}
    ELSE IF missing_fields(patient_data) # <<>>
    THEN {Result(Resp(400, [success |-> FALSE,
                            error |-> <<"Missing fields: ">>
                                      \o Join(missing_fields(patient_data), ", ")]),
                 <<>>)}
    ELSE {Result(IF o.raised THEN ErrorResponse(o.msg)
                 ELSE Resp(200, [success |-> TRUE, timestamp |-> "now",
                                 assessment |-> o.value]),
                 <<Call("assess_test_result", patient_data, o)>>) :
          o \in assess_test_result(patient_data)}

\* jsonify({'success': True, 'patient_id': ..., key: result})
SubModelJson(id, key, v) ==
    [k \in {"success", "patient_id", key} |->
        IF k = "success" THEN TRUE ELSE IF k = "patient_id" THEN id ELSE v]

\* The three sub-model handlers differ in the sub-model and the result's key.
SubModelHandler(patient_data, fn, outcomes, key) ==
    {Result(IF o.raised THEN ErrorResponse(o.msg)
            ELSE IF patient_data.kind # "object"
            THEN ErrorResponse(AttributeErrorMsg(patient_data))
            ELSE Resp(200, SubModelJson(Get(patient_data, "patient_id", "unknown"),
                                        key, o.value)),
            <<Call(fn, patient_data, o)>>) :
     o \in outcomes}

detect_anomaly(patient_data) ==
    SubModelHandler(patient_data, "detect_anomaly",
                    anomaly_detector_detect_anomaly(patient_data), "anomaly_detection")

predict_disorder(patient_data) ==
    SubModelHandler(patient_data, "predict_disorder",
                    disorder_classifier_predict_disorder(patient_data),
                    "disorder_prediction")

correct_hba1c(patient_data) ==
    SubModelHandler(patient_data, "predict_corrected_hba1c",
                    hba1c_corrector_predict_corrected_hba1c(patient_data), "correction")

model_info ==
    Result(Resp(200,
                [success |-> TRUE,
                 models |->
                     [anomaly_detector |-> [trained |-> cds.anomaly_detector,
                                            type |-> "Isolation Forest"],
                      disorder_classifier |-> [trained |-> cds.disorder_classifier,
                                               type |-> "Random Forest Classifier",
                                               categories |-> categories],
                      hba1c_corrector |-> [trained |-> cds.hba1c_corrector,
                                           type |-> "Gradient Boosting Regressor"]],
                 training_data_size |-> 1000]),
           <<>>)

\* Mutant of NoPatients: the emptiness test left out.
NoPatients_unchecked(patients) == FALSE

\* if not patients: the empty list, also the default of an absent key.
NoPatients(patients) == patients = <<>>

\* results.append({'success': True, 'assessment': result})
AppendSuccess(results, result) ==
    Append(results, [success |-> TRUE, assessment |-> result])

\* results.append({'success': False, 'patient_id': ..., 'error': str(e)})
AppendFailure(results, patient_data, msg) ==
    Append(results, [success |-> FALSE,
                     patient_id |-> Get(patient_data, "patient_id", "unknown"),
                     error |-> msg])

\* The for loop over patients.  It ends with the results, or aborted by the
\* error the except clause itself raises on an element that is no mapping.
RECURSIVE BatchLoop(_, _, _)
BatchLoop(patients, results, calls) ==
    IF patients = <<>>
    THEN {[aborted |-> FALSE, msg |-> <<>>, results |-> results, calls |-> calls]}
    ELSE LET patient_data == Head(patients)
         IN  UNION {
               LET called == Append(calls, Call("assess_test_result", patient_data, o))
               IN  IF ~o.raised
                   THEN BatchLoop(Tail(patients), AppendSuccess(results, o.value), called)
                   ELSE IF patient_data.kind # "object"
                   THEN {[aborted |-> TRUE, msg |-> AttributeErrorMsg(patient_data),
                          results |-> results, calls |-> called]}
                   ELSE BatchLoop(Tail(patients),
                                  AppendFailure(results, patient_data, o.msg), called) :
               o \in assess_test_result(patient_data)}

\* Mutant of unreliable_count: failed entries are counted as unreliable too.
unreliable_count_with_failures(results) ==
    Cardinality({i \in DOMAIN results :
                   \/ ~results[i].success
                   \/ ~results[i].assessment.test_validity.is_reliable})

\* sum(1 for r in results if r.get('success') and not ...['is_reliable'])
RECURSIVE unreliable_count(_)
unreliable_count(results) ==
    IF results = <<>> THEN 0
    ELSE (IF Head(results).success /\ ~Head(results).assessment.test_validity.is_reliable
          THEN 1 ELSE 0)
         + unreliable_count(Tail(results))

batch_validate(data) ==
    IF data.kind # "object"
    THEN {Result(ErrorResponse(AttributeErrorMsg(data)), <<>>)}
    ELSE LET patients == IF data.has_patients THEN data.patients ELSE <<>>
         IN  IF NoPatients(patients) THEN {Result(NoPatientData, <<>>)}
             ELSE {Result(IF run.aborted THEN ErrorResponse(run.msg)
                          ELSE Resp(200, [success |-> TRUE, timestamp |-> "now",
                                          total_patients |-> Len(patients),
                                          processed |-> Len(run.results),
                                          unreliable_tests |-> unreliable_count(run.results),
                                          results |-> run.results]),
                          run.calls) :
                   run \in BatchLoop(patients, <<>>, <<>>)}

----------------------------------------------------------------------------
(* The process: training at import, then serving *)

Routes == {"/api/health", "/api/validate-hba1c", "/api/detect-anomaly",
           "/api/predict-disorder", "/api/correct-hba1c", "/api/batch-validate",
           "/api/model-info"}

NoResp == Resp(0, [none |-> TRUE])

\* A request the application answered.
Answered(route, body, arrived, result) ==
    [route |-> route, body |-> body, arrived |-> arrived, served |-> phase,
     answered |-> TRUE, resp |-> result.resp, calls |-> result.calls]

\* A request no handler ever saw: nothing listens, or the process died.
Refused(route, arrived) ==
    [route |-> route, body |-> Null, arrived |-> arrived, served |-> "never",
     answered |-> FALSE, resp |-> NoResp, calls |-> <<>>]

Init ==
    /\ phase = "training"
    /\ socket_bound \in BOOLEAN
    /\ cds = Untrained
    /\ pending = <<>>
    /\ last = <<>>

\* cds.initialize_models(training_data) returns: the import goes on to app.run.
TrainingCompletes ==
    /\ phase = "training"
    /\ phase' = "serving"
    /\ cds' = initialize_models
    /\ UNCHANGED <<socket_bound, pending, last>>

\* Training raises: the import fails and the process exits; nothing is served.
TrainingFails ==
    /\ phase = "training"
    /\ phase' = "crashed"
    /\ UNCHANGED <<socket_bound, cds, pending, last>>

\* A request sent while training runs waits on the socket if it is bound.
ArriveQueued(route) ==
    /\ phase = "training"
    /\ socket_bound
    /\ Len(pending) < MaxPending
    /\ pending' = Append(pending, route)
    /\ UNCHANGED <<phase, socket_bound, cds, last>>

\* A request sent while nothing listens is refused.
ArriveRefused(route) ==
    /\ \/ phase = "training" /\ ~socket_bound
       \/ phase = "crashed"
    /\ last' = <<Refused(route, phase)>>
    /\ UNCHANGED <<phase, socket_bound, cds, pending>>

\* The process died with connections waiting: they are reset.
DropPending ==
    /\ phase = "crashed"
    /\ pending # <<>>
    /\ last' = <<Refused(Head(pending), "training")>>
    /\ pending' = Tail(pending)
    /\ UNCHANGED <<phase, socket_bound, cds>>

\* The server accepts the oldest waiting connection, or else a new one.
Accepts(route) ==
    /\ phase = "serving"
    /\ pending # <<>> => Head(pending) = route

ArrivedIn == IF pending # <<>> THEN "training" ELSE "serving"

Serve(route, body, result) ==
    /\ last' = <<Answered(route, body, ArrivedIn, result)>>
    /\ pending' = IF pending # <<>> THEN Tail(pending) ELSE pending
    /\ UNCHANGED <<phase, socket_bound, cds>>

HealthCheck ==
    /\ Accepts("/api/health")
    /\ Serve("/api/health", Null, health_check)

ValidateHba1c ==
    /\ Accepts("/api/validate-hba1c")
    /\ \E patient_data \in RecordBodies : \E r \in validate_hba1c(patient_data) :
          Serve("/api/validate-hba1c", patient_data, r)

DetectAnomaly ==
    /\ Accepts("/api/detect-anomaly")
    /\ \E patient_data \in RecordBodies : \E r \in detect_anomaly(patient_data) :
          Serve("/api/detect-anomaly", patient_data, r)

PredictDisorder ==
    /\ Accepts("/api/predict-disorder")
    /\ \E patient_data \in RecordBodies : \E r \in predict_disorder(patient_data) :
          Serve("/api/predict-disorder", patient_data, r)

CorrectHba1c ==
    /\ Accepts("/api/correct-hba1c")
    /\ \E patient_data \in RecordBodies : \E r \in correct_hba1c(patient_data) :
          Serve("/api/correct-hba1c", patient_data, r)

BatchValidate ==
    /\ Accepts("/api/batch-validate")
    /\ \E data \in BatchBodies : \E r \in batch_validate(data) :
          Serve("/api/batch-validate", data, r)

ModelInfo ==
    /\ Accepts("/api/model-info")
    /\ Serve("/api/model-info", Null, model_info)

Next ==
    \/ TrainingCompletes
    \/ TrainingFails
    \/ \E route \in Routes : ArriveQueued(route)
    \/ \E route \in Routes : ArriveRefused(route)
    \/ DropPending
    \/ HealthCheck
    \/ ValidateHba1c
    \/ DetectAnomaly
    \/ PredictDisorder
    \/ CorrectHba1c
    \/ BatchValidate
    \/ ModelInfo

Spec == Init /\ [][Next]_vars

----------------------------------------------------------------------------
(* The claims *)

\* The required fields a mapping lacks, and the field names a message carries.
Missing(body) == RequiredSet \ DOMAIN body.val

NamedFields(msg) == Range(msg) \cap Fields

\* The exchanges with a handler of `routes` that the application answered.
AnsweredOn(routes) == {i \in DOMAIN last : last[i].answered /\ last[i].route \in routes}

IsBatch(x) ==
    /\ x.body.kind = "object"
    /\ x.body.has_patients
    /\ x.body.patients # <<>>

SubModelRoutes == {"/api/detect-anomaly", "/api/predict-disorder", "/api/correct-hba1c"}

ModelRoutes == Routes \ {"/api/health"}

AllTrained == cds.anomaly_detector /\ cds.disorder_classifier /\ cds.hba1c_corrector

\* C1: every body sent to /api/validate-hba1c that lacks required fields, the
\* empty object included, is answered with an error that names exactly the
\* missing required fields, and assess_test_result is not called.
C1_MissingFieldsNamedExactly ==
    \A i \in AnsweredOn({"/api/validate-hba1c"}) :
        LET x == last[i]
        IN  (x.body.kind = "object" /\ Missing(x.body) # {}) =>
                /\ ~x.resp.json.success
                /\ NamedFields(x.resp.json.error) = Missing(x.body)
                /\ x.calls = <<>>

\* C1, as far as the code goes: a body with at least one key that lacks
\* required fields is answered 400 naming exactly those, without a core call.
C1_NamedWhenNotEmpty ==
    \A i \in AnsweredOn({"/api/validate-hba1c"}) :
        LET x == last[i]
        IN  (x.body.kind = "object" /\ DOMAIN x.body.val # {} /\ Missing(x.body) # {}) =>
                /\ x.resp.code = 400
                /\ ~x.resp.json.success
                /\ NamedFields(x.resp.json.error) = Missing(x.body)
                /\ x.calls = <<>>

\* C2: every non-empty batch, whatever its elements and whichever of them the
\* core assesses or rejects, is answered with a response that reports
\* processed = total_patients and unreliable_tests <= processed.
C2_BatchCounts ==
    \A i \in AnsweredOn({"/api/batch-validate"}) :
        LET x == last[i]
            json == x.resp.json
        IN  IsBatch(x) =>
                /\ {"processed", "total_patients", "unreliable_tests"} \subseteq DOMAIN json
                /\ json.total_patients = Len(x.body.patients)
                /\ json.processed = json.total_patients
                /\ json.unreliable_tests <= json.processed

\* C2, as far as the code goes: a response that reports counts has
\* processed = total_patients = the number of elements sent and
\* unreliable_tests <= processed, and a batch whose elements are all mappings
\* always gets such a response.
C2_CountsOnSuccess ==
    \A i \in AnsweredOn({"/api/batch-validate"}) :
        LET x == last[i]
            json == x.resp.json
        IN  IsBatch(x) =>
                /\ json.success =>
                      /\ x.resp.code = 200
                      /\ json.total_patients = Len(x.body.patients)
                      /\ json.processed = json.total_patients
                      /\ json.unreliable_tests <= json.processed
                /\ (\A k \in DOMAIN x.body.patients : x.body.patients[k].kind = "object")
                      => json.success

\* C3: a failure on any element of a batch, an element that is no mapping
\* included, becomes that element's error entry and never aborts the batch:
\* every element gets its entry and the response is a success.
C3_FailuresIsolated ==
    \A i \in AnsweredOn({"/api/batch-validate"}) :
        LET x == last[i]
        IN  IsBatch(x) =>
                /\ x.resp.code = 200
                /\ x.resp.json.success
                /\ Len(x.resp.json.results) = Len(x.body.patients)
                /\ \A k \in DOMAIN x.calls :
                      x.calls[k].outcome.raised => ~x.resp.json.results[k].success

\* C4: a batch request whose patients list is empty or absent is answered
\* with the error "No patient data provided", never with a success that
\* reports processed = 0, and assess_test_result is not called.
C4_EmptyBatchRejected ==
    \A i \in AnsweredOn({"/api/batch-validate"}) :
        LET x == last[i]
        IN  (x.body.kind = "object" /\ ~IsBatch(x)) =>
                /\ x.resp.code = 400
                /\ ~x.resp.json.success
                /\ x.resp.json.error = <<"No patient data provided">>
                /\ "processed" \notin DOMAIN x.resp.json
                /\ x.calls = <<>>

\* C4 witness: a request with "patients": [] was answered.
C4_Witness ==
    \E i \in AnsweredOn({"/api/batch-validate"}) :
        /\ last[i].body.kind = "object"
        /\ last[i].body.has_patients
        /\ last[i].body.patients = <<>>
        /\ last[i].resp.code = 400

\* C5: a readiness query sent while training runs is answered during
\* training, with "initializing"; "healthy" is answered only once training
\* has completed.
C5_ReadinessDuringTraining ==
    \A i \in DOMAIN last :
        LET x == last[i]
        IN  x.route = "/api/health" =>
                /\ x.arrived = "training" =>
                      /\ x.answered
                      /\ x.served = "training"
                      /\ x.resp.json.status = "initializing"
                /\ (x.answered /\ x.resp.json.status = "healthy") =>
                      (x.served = "serving" /\ AllTrained)

\* C6: a model-dependent request sent while the models are not ready is
\* rejected at once, during training, with a not-ready error (it neither
\* waits nor goes unanswered), and no answer is computed by untrained models.
C6_NotReadyRejected ==
    \A i \in DOMAIN last :
        LET x == last[i]
        IN  x.route \in ModelRoutes =>
                /\ x.arrived = "training" =>
                      /\ x.answered
                      /\ x.served = "training"
                      /\ ~x.resp.json.success
                      /\ x.resp.json.error = NotTrained.msg
                /\ (x.answered /\ x.resp.json.success) => AllTrained

\* C7: once training has failed the failure stays, and every later request
\* is answered with a report of the training failure.
C7_TrainingFailureReported ==
    \A i \in DOMAIN last :
        LET x == last[i]
        IN  x.arrived = "crashed" =>
                /\ phase = "crashed"
                /\ x.answered
                /\ IF x.route = "/api/health"
                   THEN x.resp.json.status = "failed"
                   ELSE ~x.resp.json.success

\* C8: the three sub-model handlers answer a body that lacks required fields
\* with an error naming the missing fields, without calling the sub-model.
C8_SubModelsValidateFields ==
    \A i \in AnsweredOn(SubModelRoutes) :
        LET x == last[i]
        IN  (x.body.kind = "object" /\ Missing(x.body) # {}) =>
                /\ ~x.resp.json.success
                /\ Missing(x.body) \subseteq NamedFields(x.resp.json.error)
                /\ x.calls = <<>>

\* A response (or a batch entry) that tells the class of its error: it is
\* more than the generic 500 with success and the bare message.
Classified(code, json) ==
    code # 500 \/ ~(DOMAIN json \subseteq {"success", "patient_id", "error"})

\* C9: an error the core raises is answered with a classified error, not with
\* a bare message, and never with a success; in a batch this is said of the
\* element's entry.
C9_ErrorsClassified ==
    /\ \A i \in AnsweredOn(Routes \ {"/api/batch-validate"}) :
          LET x == last[i]
          IN  \A k \in DOMAIN x.calls :
                  x.calls[k].outcome.raised =>
                      /\ ~x.resp.json.success
                      /\ Classified(x.resp.code, x.resp.json)
    /\ \A i \in AnsweredOn({"/api/batch-validate"}) :
          LET x == last[i]
          IN  x.resp.json.success =>
                  \A k \in DOMAIN x.calls :
                      x.calls[k].outcome.raised =>
                          /\ ~x.resp.json.results[k].success
                          /\ Classified(500, x.resp.json.results[k])

\* C10: a successful batch response holds one entry per element, in the order
\* sent, each the outcome of the core on that element, and unreliable_tests is
\* the number of successful entries whose assessment is not reliable.
C10_BatchResultsInOrder ==
    \A i \in AnsweredOn({"/api/batch-validate"}) :
        LET x == last[i]
            json == x.resp.json
            patients == x.body.patients
        IN  json.success =>
                /\ Len(json.results) = Len(patients)
                /\ Len(x.calls) = Len(patients)
                /\ \A k \in DOMAIN patients :
                      LET o == x.calls[k].outcome
                          r == json.results[k]
                      IN  /\ x.calls[k].arg = patients[k]
                          /\ r.success = ~o.raised
                          /\ r.success => r.assessment = o.value
                          /\ ~r.success =>
                                /\ r.error = o.msg
                                /\ r.patient_id = Get(patients[k], "patient_id", "unknown")
                /\ json.unreliable_tests =
                      Cardinality({k \in DOMAIN json.results :
                                     /\ json.results[k].success
                                     /\ ~json.results[k].assessment.test_validity.is_reliable})

\* C10 witness: a successful batch response whose first entry failed and
\* whose second is an unreliable assessment, with unreliable_tests = 1.
C10_Witness ==
    \E i \in AnsweredOn({"/api/batch-validate"}) :
        LET json == last[i].resp.json
        IN  /\ json.success
            /\ Len(json.results) = 2
            /\ ~json.results[1].success
            /\ json.results[2].success
            /\ ~json.results[2].assessment.test_validity.is_reliable
            /\ json.unreliable_tests = 1

====
